---- MODULE Spec2Model ----
(***************************************************************************)
(* A model of the muxie path-pattern trie: Trie.Insert and Trie.Search     *)
(* (src/trie.go) over the Node of src/unnamed/part_001.                    *)
(*                                                                         *)
(* Strings are sequences of one-character strings.  Indices into strings   *)
(* (start, i, the results of Index/LastIndex) keep Go's 0-based values.    *)
(* A node is identified by the sequence of child-map keys that leads to it *)
(* from the root: the children maps form a tree, so this identifies one    *)
(* *Node per allocation.                                                   *)
(***************************************************************************)
EXTENDS Integers, Sequences, FiniteSets, TLC

VARIABLES
    nodes,                  \* the heap of *Node: node id -> Node
    hasRootWildcard,        \* Trie.hasRootWildcard
    hasRootSlash,           \* Trie.hasRootSlash
    searchUnvisitedParams,  \* Trie.searchUnvisitedParams
    caseInsensitive,        \* Trie.caseInsensitive
    inserted,               \* history: the set of patterns passed to Insert
    superseded,             \* history: inserted patterns whose node a later, different
                            \*   pattern with the same child-key path was inserted on
    calls,                  \* history: the number of Insert calls made
    pc,                     \* "build", "loop", "after", "done": position of Search
    q,                      \* Search: the request path
    n,                      \* Search: the current node (or Nil)
    start,                  \* Search: start of the current segment
    i,                      \* Search: scan index
    paramValues,            \* Search: the captured-values slice [buf, len]; cap = Len(buf)
    visitedNodes,           \* Search: the visited set
    result,                 \* Search: the returned node, Nil, or Panic
    sets,                   \* the calls params.Set(name, value), in order
    last                    \* history: what the last step of Search did

vars == <<nodes, hasRootWildcard, hasRootSlash, searchUnvisitedParams, caseInsensitive,
          inserted, superseded, calls, pc, q, n, start, i, paramValues, visitedNodes, result, sets, last>>

trieVars == <<nodes, hasRootWildcard, hasRootSlash, searchUnvisitedParams,
              caseInsensitive, inserted, superseded, calls>>

-----------------------------------------------------------------------------
(* Strings *)

ParamStart == <<":">>
WildcardParamStart == <<"*">>
PrefixParamStart == <<"+", ":">>
SuffixParamStart == <<"-", ":">>
pathSep == <<"/">>
pathSepB == "/"

\* Go's s[a:b] and s[a:]
Slice(s, a, b) == SubSeq(s, a + 1, b)
SliceFrom(s, a) == SubSeq(s, a + 1, Len(s))

SetMin(S) == CHOOSE x \in S : \A y \in S : x <= y
SetMax(S) == CHOOSE x \in S : \A y \in S : x >= y

\* strings.Index, strings.LastIndex, strings.Contains
Occurrences(s, sep) == {k \in 0..(Len(s) - Len(sep)) : Slice(s, k, k + Len(sep)) = sep}
Index(s, sep) == IF Occurrences(s, sep) = {} THEN -1 ELSE SetMin(Occurrences(s, sep))
LastIndex(s, sep) == IF Occurrences(s, sep) = {} THEN -1 ELSE SetMax(Occurrences(s, sep))
Contains(s, sep) == Index(s, sep) # -1

\* strings.ToLower, on the letters the model uses
LowerChar(c) == CASE c = "A" -> "a" [] c = "B" -> "b" [] c = "C" -> "c" [] c = "D" -> "d"
                  [] c = "P" -> "p" [] c = "Z" -> "z" [] OTHER -> c
ToLower(s) == [k \in 1..Len(s) |-> LowerChar(s[k])]

\* strings.Split(s, "/")
RECURSIVE Split(_)
Split(s) ==
    LET k == Index(s, pathSep)
    IN IF k = -1 THEN <<s>> ELSE <<Slice(s, 0, k)>> \o Split(SliceFrom(s, k + 1))

slowPathSplit(path) ==
    IF path = pathSep THEN <<pathSep>>
    ELSE LET p == IF path[Len(path)] = pathSepB THEN Slice(path, 0, Len(path) - 1) ELSE path
         IN Tail(Split(p))

resolveStaticPart(key) ==
    LET i1 == Index(key, ParamStart)
        i2 == IF i1 = -1 THEN Index(key, WildcardParamStart) ELSE i1
        i3 == IF i2 = -1 THEN Len(key) ELSE i2
    IN Slice(key, 0, i3)

isPrefixParam(key) == Contains(key, PrefixParamStart)
isSuffixParam(key) == Contains(key, SuffixParamStart)

min(a, b) == IF a < b THEN a ELSE b

\* the element of a singleton set: binds a value that is computed once
The(S) == CHOOSE x \in S : TRUE

-----------------------------------------------------------------------------
(* Node *)

root == <<>>
Nil == << <<"nil">> >>
Panic == << <<"panic">> >>

NoChildren == [k \in {} |-> Nil]

NewNode ==
    [parent |-> Nil, children |-> NoChildren,
     hasDynamicChild |-> FALSE,
     childNamedParameter |-> FALSE, childWildcardParameter |-> FALSE,
     childPrefixParameter |-> FALSE, childSuffixParameter |-> FALSE,
     childPrefixLengths |-> <<>>, childSuffixLengths |-> <<>>,
     pathIndex |-> 0, paramCount |-> 0,
     paramKeys |-> <<>>, end |-> FALSE, key |-> <<>>, staticKey |-> <<>>,
     Handler |-> "nil", Tag |-> "", Data |-> "nil"]

getChild(ns, nd, s) ==
    IF s \in DOMAIN ns[nd].children THEN ns[nd].children[s] ELSE Nil

hasChild(ns, nd, s) == getChild(ns, nd, s) # Nil

\* addChild(s, NewNode()): the fresh node is the one reached from nd by key s
addChild(ns, nd, s) ==
    IF s \in DOMAIN ns[nd].children THEN ns
    ELSE LET child == Append(nd, s)
         IN [id \in DOMAIN ns \cup {child} |->
                IF id = child THEN [NewNode EXCEPT !.parent = nd]
                ELSE IF id = nd
                     THEN [ns[nd] EXCEPT !.children =
                             [k \in DOMAIN ns[nd].children \cup {s} |->
                                 IF k = s THEN child ELSE ns[nd].children[k]]]
                     ELSE ns[id]]

\* addLength appends l to the caller's slice; the deduplicated, sorted copy it
\* then builds is assigned to the local pointer only and is dropped on return.
addLength(paramSlice, l) == Append(paramSlice, l)

addPrefixLength(node, l) ==
    [node EXCEPT !.childPrefixLengths = addLength(node.childPrefixLengths, l)]
addSuffixLength(node, l) ==
    [node EXCEPT !.childSuffixLengths = addLength(node.childSuffixLengths, l)]

-----------------------------------------------------------------------------
(* Trie.insert *)

\* One iteration of the loop over the segments: the fields written on the
\* parent n, the parameter name collected, and the child-map key.
insertSegment(node, s, idx, paramKeys, isRoot) ==
    LET c == s[1]
        isParam == c = ParamStart[1]
        isWildcard == c = WildcardParamStart[1]
        isPrefix == isPrefixParam(s)
        isSuffix == isSuffixParam(s)
        n0 == [node EXCEPT !.pathIndex = idx + 1, !.paramCount = Len(paramKeys)]
    IN  IF isParam THEN
            [node |-> [n0 EXCEPT !.hasDynamicChild = TRUE, !.childNamedParameter = TRUE],
             paramKeys |-> Append(paramKeys, SliceFrom(s, 1)),
             s |-> ParamStart, rootWildcard |-> FALSE]
        ELSE IF isWildcard THEN
            [node |-> [n0 EXCEPT !.hasDynamicChild = TRUE, !.childWildcardParameter = TRUE],
             paramKeys |-> Append(paramKeys, SliceFrom(s, 1)),
             s |-> WildcardParamStart, rootWildcard |-> isRoot]
        ELSE IF isPrefix THEN
            LET indx == Index(s, PrefixParamStart)
            IN [node |-> addPrefixLength(
                            [n0 EXCEPT !.hasDynamicChild = TRUE, !.childPrefixParameter = TRUE],
                            indx),
                paramKeys |-> Append(paramKeys, SliceFrom(s, indx + 2)),
                s |-> Slice(s, 0, indx + 2), rootWildcard |-> FALSE]
        ELSE IF isSuffix THEN
            LET indx == Index(s, SuffixParamStart)
            IN [node |-> addSuffixLength(
                            [n0 EXCEPT !.hasDynamicChild = TRUE, !.childSuffixParameter = TRUE],
                            Len(s) - (indx + 2)),
                paramKeys |-> Append(paramKeys, Slice(s, 0, indx)),
                s |-> SliceFrom(s, indx), rootWildcard |-> FALSE]
        ELSE [node |-> n0, paramKeys |-> paramKeys, s |-> s, rootWildcard |-> FALSE]

RECURSIVE insertLoop(_, _, _, _, _, _, _)
insertLoop(ns, nd, input, idx, paramKeys, hrw, ci) ==
    IF idx >= Len(input)
    THEN [nodes |-> ns, n |-> nd, paramKeys |-> paramKeys, hasRootWildcard |-> hrw]
    ELSE LET seg == insertSegment(ns[nd], input[idx + 1], idx, paramKeys, nd = root)
             s == IF ci THEN ToLower(seg.s) ELSE seg.s
             ns1 == [ns EXCEPT ![nd] = seg.node]
             ns2 == IF ~hasChild(ns1, nd, s) THEN addChild(ns1, nd, s) ELSE ns1
         IN insertLoop(ns2, getChild(ns2, nd, s), input, idx + 1, seg.paramKeys,
                       hrw \/ seg.rootWildcard, ci)

\* insert that writes the key of a terminal node only once
insertKeepsFirstKey(ns, hrw, ci, key, tag, optionalData, handler) ==
    LET w == insertLoop(ns, root, slowPathSplit(key), 0, <<>>, hrw, ci)
    IN [nodes |-> [w.nodes EXCEPT ![w.n] =
                     [@ EXCEPT !.Tag = tag, !.Handler = handler, !.Data = optionalData,
                               !.paramKeys = w.paramKeys,
                               !.key = IF @ = <<>> THEN key ELSE @,
                               !.staticKey = resolveStaticPart(key), !.end = TRUE]],
        n |-> w.n, hasRootWildcard |-> w.hasRootWildcard]

\* t.insert(key, tag, optionalData, handler): the walk and the writes on the
\* terminal node.
insert(ns, hrw, ci, key, tag, optionalData, handler) ==
    LET w == insertLoop(ns, root, slowPathSplit(key), 0, <<>>, hrw, ci)
    IN [nodes |-> [w.nodes EXCEPT ![w.n] =
                     [@ EXCEPT !.Tag = tag, !.Handler = handler, !.Data = optionalData,
                               !.paramKeys = w.paramKeys, !.key = key,
                               !.staticKey = resolveStaticPart(key), !.end = TRUE]],
        n |-> w.n, hasRootWildcard |-> w.hasRootWildcard]

\* The InsertOption closures
WithHandler(handler, node) ==
    IF node.Handler = "nil" THEN [node EXCEPT !.Handler = handler] ELSE node
WithTag(tag, node) ==
    IF node.Tag = "" THEN [node EXCEPT !.Tag = tag] ELSE node
WithData(data, node) == [node EXCEPT !.Data = data]

applyOption(opt, node) ==
    CASE opt.kind = "handler" -> WithHandler(opt.v, node)
      [] opt.kind = "tag" -> WithTag(opt.v, node)
      [] opt.kind = "data" -> WithData(opt.v, node)

RECURSIVE applyOptions(_, _)
applyOptions(options, node) ==
    IF options = <<>> THEN node
    ELSE applyOptions(Tail(options), applyOption(Head(options), node))

-----------------------------------------------------------------------------
(* Node lookups used by Search *)

RECURSIVE prefixProbe(_, _, _, _)
prefixProbe(ns, nd, s, lengths) ==
    IF lengths = <<>> THEN Nil
    ELSE LET indx == Head(lengths)
             child == getChild(ns, nd, Slice(s, 0, indx) \o PrefixParamStart)
         IN IF indx > Len(s) THEN prefixProbe(ns, nd, s, Tail(lengths))
            ELSE IF child # Nil THEN child
            ELSE prefixProbe(ns, nd, s, Tail(lengths))

\* (child, exists) is (c, TRUE) with c a node, or (nil, FALSE): Nil stands for the latter
getPrefixParamChild(ns, nd, s) ==
    IF ~ns[nd].childPrefixParameter THEN Nil
    ELSE prefixProbe(ns, nd, s, ns[nd].childPrefixLengths)

RECURSIVE suffixProbe(_, _, _, _)
suffixProbe(ns, nd, s, lengths) ==
    IF lengths = <<>> THEN Nil
    ELSE LET indx == Len(s) - Head(lengths)
             child == getChild(ns, nd, SuffixParamStart \o SliceFrom(s, indx))
         IN IF indx < 0 THEN suffixProbe(ns, nd, s, Tail(lengths))
            ELSE IF child # Nil THEN child
            ELSE suffixProbe(ns, nd, s, Tail(lengths))

getSuffixParamChild(ns, nd, s) ==
    IF ~ns[nd].childSuffixParameter THEN Nil
    ELSE suffixProbe(ns, nd, s, ns[nd].childSuffixLengths)

RECURSIVE wildcardClimb(_, _)
wildcardClimb(ns, cur) ==
    IF cur = Nil THEN Nil
    ELSE IF ns[cur].childWildcardParameter THEN getChild(ns, cur, WildcardParamStart)
    ELSE wildcardClimb(ns, ns[cur].parent)

findClosestParentWildcardNode(ns, nd) == wildcardClimb(ns, ns[nd].parent)

\* strings.LastIndex(path[:idx], "/"), and the same with -1 replaced by 0
lastSep(path, idx) == LastIndex(Slice(path, 0, idx), pathSep)
lastSepOrZero(path, idx) == IF lastSep(path, idx) = -1 THEN 0 ELSE lastSep(path, idx)

\* unvisitedChild without the test of the named child
unvisitedChildSkipsNamed(ns, cur, visited, pre, suf) ==
    IF pre # Nil /\ pre \notin visited THEN pre
    ELSE IF suf # Nil /\ suf \notin visited THEN suf
    ELSE IF ns[cur].childWildcardParameter
            /\ getChild(ns, cur, WildcardParamStart) \notin visited
         THEN getChild(ns, cur, WildcardParamStart)
    ELSE Nil

\* The four candidates at ancestor cur, in the order the code tests them; Nil if
\* none is unvisited.  pre and suf are the results of the two probes.
unvisitedChild(ns, cur, visited, pre, suf) ==
    IF pre # Nil /\ pre \notin visited THEN pre
    ELSE IF suf # Nil /\ suf \notin visited THEN suf
    ELSE IF ns[cur].childNamedParameter /\ getChild(ns, cur, ParamStart) \notin visited
         THEN getChild(ns, cur, ParamStart)
    ELSE IF ns[cur].childWildcardParameter
            /\ getChild(ns, cur, WildcardParamStart) \notin visited
         THEN getChild(ns, cur, WildcardParamStart)
    ELSE Nil

RECURSIVE unvisitedClimb(_, _, _, _, _, _)
\* one pass of the loop with i and start already moved back to i1 and st1
unvisitedAt(ns, cur, visited, path, st1, i1, child) ==
    IF child # Nil THEN [n |-> child, start |-> st1, i |-> i1]
    ELSE The({unvisitedClimb(ns, up, visited, path, st1, i1) : up \in {ns[cur].parent}})

unvisitedSegment(ns, cur, visited, path, st1, i1) ==
    The({unvisitedAt(ns, cur, visited, path, st1, i1, child) :
            child \in {unvisitedChild(ns, cur, visited,
                                      getPrefixParamChild(ns, cur, Slice(path, st1, i1)),
                                      getSuffixParamChild(ns, cur, Slice(path, st1, i1)))}})

unvisitedBack(ns, cur, visited, path, i1) ==
    The({unvisitedSegment(ns, cur, visited, path, st1, i1) : st1 \in {lastSep(path, i1) + 1}})

unvisitedClimb(ns, cur, visited, path, st, idx) ==
    IF cur = Nil THEN [n |-> Nil, start |-> st, i |-> idx]
    ELSE The({unvisitedBack(ns, cur, visited, path, i1) : i1 \in {lastSepOrZero(path, idx)}})

findClosestUnvisitedNode(ns, nd, visited, path, idx) ==
    unvisitedClimb(ns, ns[nd].parent, visited, path, 0, idx)

-----------------------------------------------------------------------------
(* The paramValues slice: buf is the backing array (cap = Len(buf)), len its length *)

NilSlice == [buf |-> <<>>, len |-> 0]
cap(pv) == Len(pv.buf)
Values(pv) == SubSeq(pv.buf, 1, pv.len)

\* append on a full slice: the runtime allocates 1 slot for an empty slice and
\* doubles a small one; the new slots hold the zero string
growCap(c) == IF c = 0 THEN 1 ELSE 2 * c

appendParameterValue(pv, value) ==
    IF cap(pv) > pv.len
    THEN [buf |-> [pv.buf EXCEPT ![pv.len + 1] = value], len |-> pv.len + 1]
    ELSE [buf |-> Values(pv) \o <<value>> \o [k \in 1..(growCap(cap(pv)) - pv.len - 1) |-> <<>>],
          len |-> pv.len + 1]

\* paramValues[:lim]
Reslice(pv, lim) == [buf |-> pv.buf, len |-> lim]

\* lim := min(n.paramCount, cap(paramValues)); paramValues = paramValues[:lim]
cutBack(ns, nd, pv) == Reslice(pv, min(ns[nd].paramCount, cap(pv)))

-----------------------------------------------------------------------------
(* Trie.Search *)

qc == IF caseInsensitive THEN ToLower(q) ELSE q

SetCall(name, value) == [name |-> name, value |-> value]

\* params.Set(w.paramKeys[0], q[from:]); return w.  Either index can be out of range.
wildcardReturn(ns, w, qq, from) ==
    IF Len(ns[w].paramKeys) = 0 \/ from > Len(qq)
    THEN [result |-> Panic, sets |-> <<>>]
    ELSE [result |-> w, sets |-> <<SetCall(ns[w].paramKeys[1], SliceFrom(qq, from))>>]

\* The inner loop "i++" up to the next index with i == end or q[i] == '/'
Boundary(qq, k) == SetMin({j \in k..Len(qq) : j = Len(qq) \/ qq[j + 1] = pathSepB})

NoBack == [on |-> FALSE, node |-> Nil, cut |-> <<>>, start |-> 0, i |-> 0]

\* backtrackWith that leaves the node out of the visited set
backtrackWithUnmarked(qq, u, cut, vis) ==
    [n |-> u.n, start |-> u.start, i |-> u.i,
     pv |-> appendParameterValue(cut, Slice(qq, u.start, u.i)),
     vis |-> vis,
     back |-> [on |-> TRUE, node |-> u.n, cut |-> Values(cut), start |-> u.start, i |-> u.i]]

\* A backtrack to the node u.n returned by findClosestUnvisitedNode: mark it
\* visited, cut paramValues back (cut), capture q[start:i].
backtrackWith(qq, u, cut, vis) ==
    [n |-> u.n, start |-> u.start, i |-> u.i,
     pv |-> appendParameterValue(cut, Slice(qq, u.start, u.i)),
     vis |-> vis \cup {u.n},
     back |-> [on |-> TRUE, node |-> u.n, cut |-> Values(cut), start |-> u.start, i |-> u.i]]

backtrackTo(ns, qq, u, pv, vis) ==
    The({backtrackWith(qq, u, cut, vis) : cut \in {cutBack(ns, u.n, pv)}})

\* What a branch of the loop body leaves behind
Branch(kind, exit, from, seg, child, st, idx, pv, vis, back, out) ==
    [kind |-> kind, exit |-> exit, n |-> child, start |-> st, i |-> idx, pv |-> pv,
     vis |-> vis, back |-> back, result |-> out.result, sets |-> out.sets,
     from |-> from, seg |-> seg, child |-> child, captured |-> Values(pv), retry |-> FALSE]

NoResult == [result |-> Nil, sets |-> <<>>]

\* lines 403-407: n = unvisited and the bookkeeping bt of the backtrack
withBacktrack(nd, seg, bt) ==
    Branch("backtrack", "go", nd, seg, bt.n, bt.start, bt.i, bt.pv, bt.vis, bt.back,
           NoResult)

\* lines 435-440: the same bookkeeping at the end of the request, then break
withRetry(r, bt) ==
    [r EXCEPT !.exit = "break", !.n = bt.n, !.start = bt.start, !.i = bt.i,
              !.pv = bt.pv, !.vis = bt.vis, !.back = bt.back, !.retry = TRUE]

\* Lines 397-429: no child accepts the segment.  u is the unvisited node found
\* (Nil when the option is off), w the closest parent wildcard.
noChild(ns, qq, nd, seg, pv, vis, u, w) ==
    IF u.n # Nil THEN
        The({withBacktrack(nd, seg, bt) : bt \in {backtrackTo(ns, qq, u, pv, vis)}})
    ELSE IF w # Nil THEN
        Branch("fallback", "return", nd, seg, w, u.start, u.i, pv, vis, NoBack,
               wildcardReturn(ns, w, qq, Len(ns[w].staticKey)))
    ELSE Branch("miss", "return", nd, seg, Nil, u.start, u.i, pv, vis, NoBack, NoResult)

\* descend with the named child tried before the prefix and suffix children
descendNamedFirst(ns, sup, qq, qqc, nd, st, b, pv, vis, seg, stat, pre, suf) ==
    IF stat # Nil THEN
        Branch("static", "go", nd, seg, stat, st, b, pv, vis, NoBack, NoResult)
    ELSE IF ns[nd].childNamedParameter THEN
        Branch("named", "go", nd, seg, getChild(ns, nd, ParamStart), st, b,
               appendParameterValue(pv, seg), vis \cup {getChild(ns, nd, ParamStart)},
               NoBack, NoResult)
    ELSE IF pre # Nil THEN
        Branch("prefix", "go", nd, seg, pre, st, b, appendParameterValue(pv, seg),
               vis \cup {pre}, NoBack, NoResult)
    ELSE IF suf # Nil THEN
        Branch("suffix", "go", nd, seg, suf, st, b, appendParameterValue(pv, seg),
               vis \cup {suf}, NoBack, NoResult)
    ELSE IF ns[nd].childWildcardParameter THEN
        Branch("wildcard", "break", nd, seg, getChild(ns, nd, WildcardParamStart), st, b,
               appendParameterValue(pv, SliceFrom(qq, st)), vis, NoBack, NoResult)
    ELSE The({noChild(ns, qq, nd, seg, pv, vis, u, findClosestParentWildcardNode(ns, nd)) :
                 u \in {IF sup THEN findClosestUnvisitedNode(ns, nd, vis, qqc, b)
                        ELSE [n |-> Nil, start |-> st, i |-> b]}})

\* Lines 373-396: the child chosen for the segment, given the three lookups
descend(ns, sup, qq, qqc, nd, st, b, pv, vis, seg, stat, pre, suf) ==
    IF stat # Nil THEN
        Branch("static", "go", nd, seg, stat, st, b, pv, vis, NoBack, NoResult)
    ELSE IF pre # Nil THEN
        Branch("prefix", "go", nd, seg, pre, st, b, appendParameterValue(pv, seg),
               vis \cup {pre}, NoBack, NoResult)
    ELSE IF suf # Nil THEN
        Branch("suffix", "go", nd, seg, suf, st, b, appendParameterValue(pv, seg),
               vis \cup {suf}, NoBack, NoResult)
    ELSE IF ns[nd].childNamedParameter THEN
        Branch("named", "go", nd, seg, getChild(ns, nd, ParamStart), st, b,
               appendParameterValue(pv, seg), vis \cup {getChild(ns, nd, ParamStart)},
               NoBack, NoResult)
    ELSE IF ns[nd].childWildcardParameter THEN
        Branch("wildcard", "break", nd, seg, getChild(ns, nd, WildcardParamStart), st, b,
               appendParameterValue(pv, SliceFrom(qq, st)), vis, NoBack, NoResult)
    ELSE The({noChild(ns, qq, nd, seg, pv, vis, u, findClosestParentWildcardNode(ns, nd)) :
                 u \in {IF sup THEN findClosestUnvisitedNode(ns, nd, vis, qqc, b)
                        ELSE [n |-> Nil, start |-> st, i |-> b]}})

\* The branch taken for the segment q[st:b] at node nd
resolve(ns, sup, qq, qqc, nd, st, b, pv, vis) ==
    descend(ns, sup, qq, qqc, nd, st, b, pv, vis, Slice(qq, st, b),
            getChild(ns, nd, Slice(qqc, st, b)),
            getPrefixParamChild(ns, nd, Slice(qqc, st, b)),
            getSuffixParamChild(ns, nd, Slice(qqc, st, b)))

\* Lines 433-445: at the end of the request on a non-terminal node, with the
\* option on: u is what findClosestUnvisitedNode returned
retry(ns, qq, r, u) ==
    IF u.n # Nil THEN The({withRetry(r, bt) : bt \in {backtrackTo(ns, qq, u, r.pv, r.vis)}})
    ELSE [r EXCEPT !.exit = "break", !.n = Nil, !.start = u.start, !.i = u.i]

\* The code after the branch: "if i == end { ... break }; i++; start = i; continue"
afterBranch(ns, sup, qq, qqc, r) ==
    IF r.exit # "go" THEN r
    ELSE IF r.i = Len(qq) THEN
        IF sup /\ ~ns[r.n].end
        THEN The({retry(ns, qq, r, u) :
                     u \in {findClosestUnvisitedNode(ns, r.n, r.vis, qqc, r.i)}})
        ELSE [r EXCEPT !.exit = "break"]
    ELSE [r EXCEPT !.i = r.i + 1, !.start = r.i + 1]

\* One pass through the body of the for loop, from the scan to continue/break/return
iteration ==
    The({afterBranch(nodes, searchUnvisitedParams, q, qc, r) :
            r \in {resolve(nodes, searchUnvisitedParams, q, qc, n, start, b,
                           paramValues, visitedNodes) : b \in {Boundary(q, i)}}})

NoStep == [kind |-> "none", from |-> Nil, seg |-> <<>>, child |-> Nil, captured |-> <<>>,
           back |-> NoBack, retry |-> FALSE]

\* Lines 344-369: the fast paths and the set-up of the loop
SearchBegin(qq) ==
    /\ pc \in {"build", "done"}
    /\ q' = qq
    /\ sets' = <<>>
    /\ last' = NoStep
    /\ paramValues' = NilSlice
    /\ visitedNodes' = {}
    /\ IF Len(qq) = 0 \/ (Len(qq) = 1 /\ qq[1] = pathSepB)
       THEN /\ pc' = "done"
            /\ result' = IF hasRootSlash THEN getChild(nodes, root, pathSep)
                         ELSE IF hasRootWildcard
                              THEN getChild(nodes, root, WildcardParamStart)
                              ELSE Nil
            /\ n' = Nil /\ start' = 0 /\ i' = 0
       ELSE /\ pc' = "loop"
            /\ result' = Nil
            /\ n' = root /\ start' = 1 /\ i' = 1
    /\ UNCHANGED trieVars

\* One iteration of the loop (lines 371-454) that takes the branch `kind`
Step(kind) ==
    /\ pc = "loop"
    /\ \E r \in {iteration} :
          /\ r.kind = kind
          /\ n' = r.n /\ start' = r.start /\ i' = r.i
          /\ paramValues' = r.pv
          /\ visitedNodes' = r.vis
          /\ last' = [kind |-> r.kind, from |-> r.from, seg |-> r.seg, child |-> r.child,
                      captured |-> r.captured, back |-> r.back, retry |-> r.retry]
          /\ pc' = CASE r.exit = "go" -> "loop"
                     [] r.exit = "break" -> "after"
                     [] r.exit = "return" -> "done"
          /\ result' = IF r.exit = "return" THEN r.result ELSE result
          /\ sets' = IF r.exit = "return" THEN r.sets ELSE sets
    /\ UNCHANGED <<trieVars, q>>

StepStatic == Step("static")
StepPrefix == Step("prefix")
StepSuffix == Step("suffix")
StepNamed == Step("named")
StepWildcard == Step("wildcard")
StepBacktrack == Step("backtrack")
StepFallback == Step("fallback")
StepMiss == Step("miss")

\* for i, paramValue := range paramValues { if len(n.paramKeys) > i { params.Set(...) } }
emit(keys, values) ==
    [k \in 1..min(Len(keys), Len(values)) |-> SetCall(keys[k], values[k])]

\* Lines 456-485: the code after the loop, w being the closest parent wildcard of n
afterLoop(ns, hrw, qq, nd, pv, w) ==
    IF nd = Nil \/ ~ns[nd].end
    THEN IF w # Nil
         THEN [kind |-> "lateFallback"] @@ wildcardReturn(ns, w, qq, Len(ns[w].staticKey))
         ELSE IF hrw
              THEN [kind |-> "rootFallback"]
                   @@ wildcardReturn(ns, getChild(ns, root, WildcardParamStart), qq, 1)
              ELSE [kind |-> "lateMiss"] @@ NoResult
    ELSE [kind |-> "match", result |-> nd, sets |-> emit(ns[nd].paramKeys, Values(pv))]

SearchReturn ==
    /\ pc = "after"
    /\ pc' = "done"
    /\ \E out \in {afterLoop(nodes, hasRootWildcard, q, n, paramValues,
                             IF n # Nil THEN findClosestParentWildcardNode(nodes, n)
                             ELSE Nil)} :
          /\ result' = out.result
          /\ sets' = out.sets
          /\ last' = [last EXCEPT !.kind = out.kind]
    /\ UNCHANGED <<trieVars, q, n, start, i, paramValues, visitedNodes>>

-----------------------------------------------------------------------------
(* The patterns and requests explored *)

MaxInserts == 3

P_slash == <<"/">>                                    \* /
P_w     == <<"/", "*", "w">>                          \* /*w
P_bcz   == <<"/", "b", "/", "c", "/", "z">>           \* /b/c/z
P_bcz_s == <<"/", "b", "/", "c", "/", "z", "/">>      \* /b/c/z/
P_Bcz   == <<"/", "B", "/", "c", "/", "z">>           \* /B/c/z
P_p     == <<"/", ":", "p">>                          \* /:p
P_pcd   == <<"/", ":", "p", "/", "c", "/", "d">>      \* /:p/c/d
P_qcd   == <<"/", ":", "q", "/", "c", "/", "d">>      \* /:q/c/d
P_byz   == <<"/", "b", "/", ":", "y", "/", "z">>      \* /b/:y/z
P_bw    == <<"/", "b", "/", "*", "w">>                \* /b/*w
P_pw    == <<"/", ":", "p", "/", "*", "w">>           \* /:p/*w
P_pre1  == <<"/", "b", "+", ":", "a">>                \* /b+:a   (prefix literal b)
P_pre2  == <<"/", "b", "c", "+", ":", "a">>           \* /bc+:a  (prefix literal bc)
P_suf1  == <<"/", "a", "-", ":", "d">>                \* /a-:d   (suffix literal d)
P_suf2  == <<"/", "a", "-", ":", "c", "d">>           \* /a-:cd  (suffix literal cd)

\* the patterns Search is explored on
Patterns == {P_slash, P_w, P_bcz, P_p, P_pcd, P_byz, P_bw, P_pw, P_pre1, P_pre2, P_suf1, P_suf2}

\* the patterns the build phase alone is explored on: with the variants that
\* differ by a trailing slash, a parameter name or letter case
BuildPatterns == Patterns \cup {P_bcz_s, P_Bcz, P_qcd}

R_empty == <<>>
R_slash == <<"/">>
R_a     == <<"/", "a">>
R_bc    == <<"/", "b", "/", "c">>
R_ba    == <<"/", "b", "/", "a">>
R_bad   == <<"/", "b", "/", "a", "/", "d">>
R_bcd   == <<"/", "b", "/", "c", "/", "d">>
R_bcz   == <<"/", "b", "/", "c", "/", "z">>
R_Bcz   == <<"/", "B", "/", "c", "/", "z">>
R_acd   == <<"/", "a", "/", "c", "/", "d">>
R_aca   == <<"/", "a", "/", "c", "/", "a">>
R_1bcd  == <<"/", "b", "c", "d">>
R_1acd  == <<"/", "a", "c", "d">>
R_colon == <<"/", ":", "/", "c", "/", "d">>

Requests == {R_empty, R_slash, R_a, R_bc, R_ba, R_bad, R_bcd, R_bcz, R_Bcz, R_acd, R_aca,
             R_1bcd, R_1acd, R_colon}

-----------------------------------------------------------------------------
(* Trie.Insert *)

\* The child-map key of a pattern segment (history only: which patterns share a node)
SegmentKey(s) ==
    IF s[1] = ":" THEN ParamStart
    ELSE IF s[1] = "*" THEN WildcardParamStart
    ELSE IF Contains(s, PrefixParamStart) THEN Slice(s, 0, Index(s, PrefixParamStart) + 2)
    ELSE IF Contains(s, SuffixParamStart) THEN SliceFrom(s, Index(s, SuffixParamStart))
    ELSE s

KeyPath(p, ci) ==
    LET segs == slowPathSplit(p)
    IN [k \in 1..Len(segs) |-> IF ci THEN ToLower(SegmentKey(segs[k])) ELSE SegmentKey(segs[k])]

Insert(pattern, options) ==
    /\ pc = "build"
    /\ calls < MaxInserts
    /\ pattern # <<>>
    /\ LET r == insert(nodes, hasRootWildcard, caseInsensitive, pattern, "", "nil", "nil")
       IN /\ nodes' = [r.nodes EXCEPT ![r.n] = applyOptions(options, @)]
          /\ hasRootWildcard' = r.hasRootWildcard
    /\ hasRootSlash' = (hasRootSlash \/ pattern = pathSep)
    /\ inserted' = inserted \cup {pattern}
    /\ superseded' = (superseded \ {pattern}) \cup
                     {x \in inserted : x # pattern /\
                         KeyPath(x, caseInsensitive) = KeyPath(pattern, caseInsensitive)}
    /\ calls' = calls + 1
    /\ UNCHANGED <<searchUnvisitedParams, caseInsensitive, pc, q, n, start, i, paramValues,
                   visitedNodes, result, sets, last>>

InsertPattern == \E p \in Patterns : Insert(p, <<>>)

Search == \E qq \in Requests : SearchBegin(qq)

Init ==
    /\ nodes = [id \in {root} |-> NewNode]
    /\ hasRootWildcard = FALSE
    /\ hasRootSlash = FALSE
    /\ searchUnvisitedParams \in BOOLEAN
    /\ caseInsensitive \in BOOLEAN
    /\ inserted = {}
    /\ superseded = {}
    /\ calls = 0
    /\ pc = "build"
    /\ q = <<>>
    /\ n = Nil
    /\ start = 0
    /\ i = 0
    /\ paramValues = NilSlice
    /\ visitedNodes = {}
    /\ result = Nil
    /\ sets = <<>>
    /\ last = NoStep

Next ==
    \/ InsertPattern
    \/ Search
    \/ StepStatic
    \/ StepPrefix
    \/ StepSuffix
    \/ StepNamed
    \/ StepWildcard
    \/ StepBacktrack
    \/ StepFallback
    \/ StepMiss
    \/ SearchReturn

Spec == Init /\ [][Next]_vars

\* The build phase alone
InsertBuildPattern == \E p \in BuildPatterns : Insert(p, <<>>)

NextBuild == InsertBuildPattern

SpecBuild == Init /\ [][NextBuild]_vars

\* The build phase with the payload options
Handlers == {"h1", "h2"}
Tags == {"t1", "t2"}
Datas == {"d1", "d2"}

OptionLists ==
    {<<>>} \cup {<<[kind |-> "handler", v |-> h]>> : h \in Handlers}
           \cup {<<[kind |-> "tag", v |-> g]>> : g \in Tags}
           \cup {<<[kind |-> "data", v |-> d]>> : d \in Datas}
           \cup {<<[kind |-> "handler", v |-> "h1"], [kind |-> "tag", v |-> "t1"],
                   [kind |-> "data", v |-> "d1"]>>}

PayloadPatterns == {P_bcz, P_pcd}

InsertWithOptions == \E p \in PayloadPatterns, o \in OptionLists : Insert(p, o)

NextPayload == InsertWithOptions

SpecPayload == Init /\ [][NextPayload]_vars

-----------------------------------------------------------------------------
(* What the claims speak of: pattern segments, request segments, matching *)

\* the class of a child, read off its key in the children map
KeyKind(k) ==
    IF k = ParamStart THEN "named"
    ELSE IF k = WildcardParamStart THEN "wildcard"
    ELSE IF Len(k) >= 2 /\ SliceFrom(k, Len(k) - 2) = PrefixParamStart THEN "prefix"
    ELSE IF Len(k) >= 2 /\ Slice(k, 0, 2) = SuffixParamStart THEN "suffix"
    ELSE "static"

KeyLiteral(k) ==
    CASE KeyKind(k) = "prefix" -> Slice(k, 0, Len(k) - 2)
      [] KeyKind(k) = "suffix" -> SliceFrom(k, 2)
      [] OTHER -> k

StartsWith(s, lit) == Len(lit) <= Len(s) /\ Slice(s, 0, Len(lit)) = lit
EndsWith(s, lit) == Len(lit) <= Len(s) /\ SliceFrom(s, Len(s) - Len(lit)) = lit

Fold(s) == IF caseInsensitive THEN ToLower(s) ELSE s

\* does a child with key k accept the request segment s
KeyAccepts(k, s) ==
    CASE KeyKind(k) = "static" -> k = Fold(s)
      [] KeyKind(k) = "prefix" -> StartsWith(Fold(s), KeyLiteral(k))
      [] KeyKind(k) = "suffix" -> EndsWith(Fold(s), KeyLiteral(k))
      [] OTHER -> TRUE

\* the segments of a request: what lies between the slashes after the first
RequestSegs(qq) == IF qq = <<>> THEN << <<>> >> ELSE Split(SliceFrom(qq, 1))

\* the 0-based index in qq at which its k-th segment starts
RECURSIVE SegStart(_, _)
SegStart(qq, k) ==
    IF k = 1 THEN 1 ELSE Boundary(qq, SegStart(qq, k - 1)) + 1

\* the request from its k-th segment on, slashes included
Remainder(qq, k) == SliceFrom(qq, SegStart(qq, k))

\* the pattern key matches the whole request, segment by segment
Matches(key, qq) ==
    IF key = pathSep THEN qq \in {<<>>, pathSep}
    ELSE LET ps == KeyPath(key, caseInsensitive)
             rs == RequestSegs(qq)
             m == Len(ps)
         IN IF KeyKind(ps[m]) = "wildcard"
            THEN /\ Len(rs) >= m
                 /\ \A k \in 1..(m - 1) : KeyKind(ps[k]) # "wildcard" /\ KeyAccepts(ps[k], rs[k])
            ELSE /\ Len(rs) = m
                 /\ \A k \in 1..m : KeyKind(ps[k]) # "wildcard" /\ KeyAccepts(ps[k], rs[k])

IsSubstring(v, qq) == Occurrences(qq, v) # {}

\* a request none of whose segments contains a character of the pattern syntax
PlainRequest(qq) == \A k \in 1..Len(qq) : qq[k] \notin {":", "*", "+", "-"}

Returned == pc = "done" /\ result # Nil /\ result # Panic

\* the positions (1-based) of the dynamic segments on the path to node nd
DynamicPositions(nd) == {k \in 1..Len(nd) : KeyKind(nd[k]) # "static"}

\* the j-th smallest element of a set of numbers
RECURSIVE Nth(_, _)
Nth(S, j) == IF j = 1 THEN SetMin(S) ELSE Nth(S \ {SetMin(S)}, j - 1)

\* the value the j-th parameter of the pattern ending at nd stands for in qq
BindingAt(nd, qq, j) ==
    LET pos == Nth(DynamicPositions(nd), j)
    IN IF KeyKind(nd[pos]) = "wildcard" THEN Remainder(qq, pos)
       ELSE RequestSegs(qq)[pos]

\* the bindings of all the parameters on the path from the root to nd
Bindings(nd, qq) ==
    [j \in 1..Cardinality(DynamicPositions(nd)) |-> BindingAt(nd, qq, j)]

\* Node.Keys(nil): the keys of the terminal nodes at and below nd, as a set
RECURSIVE Keys(_, _)
Keys(ns, nd) ==
    (IF ns[nd].end THEN {ns[nd].key} ELSE {})
    \cup UNION {Keys(ns, ns[nd].children[k]) : k \in DOMAIN ns[nd].children}

Terminals(p) == {nd \in DOMAIN nodes : nodes[nd].end /\ nodes[nd].key = p}

Parent(nd) == SubSeq(nd, 1, Len(nd) - 1)

\* the closest proper ancestor of nd that has a wildcard child
AncestorsWithWildcard(nd) ==
    {k \in 0..(Len(nd) - 1) : WildcardParamStart \in DOMAIN nodes[SubSeq(nd, 1, k)].children}

-----------------------------------------------------------------------------
(* The claims *)

\* C1: a node returned by Search is terminal, its key matches the whole request
\* segment by segment, and every value passed to params.Set is a substring of
\* the request.
C1_ReturnedNodeMatches ==
    Returned =>
        /\ nodes[result].end
        /\ Matches(nodes[result].key, q)
        /\ \A k \in 1..Len(sets) : IsSubstring(sets[k].value, q)

\* C2: a backtrack cuts the captured values back to the parameters on the path
\* from the root to the parent of the node it resumes at, and a terminal reached
\* by the walk has its k-th parameter bound to the request segment at the
\* position of its k-th dynamic segment.
C2_BacktrackCutsBack ==
    (searchUnvisitedParams /\ PlainRequest(q)) =>
    /\ last.back.on => last.back.cut = Bindings(Parent(last.back.node), q)
    /\ (Returned /\ last.kind = "match") =>
          \A k \in 1..Len(sets) :
              /\ k <= Cardinality(DynamicPositions(result))
              /\ Nth(DynamicPositions(result), k) <= Len(RequestSegs(q))
              /\ sets[k].value = BindingAt(result, q, k)

\* C3: when the walk of Search returns a node, params.Set has been called once
\* for each parameter name of the matched pattern, in pattern order.
C3_OneSetPerParameter ==
    (Returned /\ last.kind # "none" /\ PlainRequest(q)) =>
        /\ Len(sets) = Len(nodes[result].paramKeys)
        /\ \A k \in 1..Len(sets) : sets[k].name = nodes[result].paramKeys[k]

\* C4: a wildcard fallback returns the wildcard child of the closest ancestor
\* that has one and binds the wildcard's own parameter to the rest of the
\* request from the segment below that ancestor; with /b/*w and /b/:y/z,
\* /b/a gives w = "a" and /b/a/d gives w = "a/d", under either option setting.
C4_WildcardFallback ==
    /\ (Returned /\ last.kind \in {"fallback", "lateFallback"}) =>
          LET stop == IF last.kind = "fallback" THEN last.from ELSE n
              w == nodes[result]
          IN /\ AncestorsWithWildcard(stop) # {}
             /\ result = Append(SubSeq(stop, 1, SetMax(AncestorsWithWildcard(stop))),
                                WildcardParamStart)
             /\ sets = <<SetCall(w.paramKeys[Len(w.paramKeys)], Remainder(q, Len(result)))>>
    /\ (pc = "done" /\ inserted = {P_bw, P_byz} /\ q = R_ba) =>
          /\ result = <<<<"b">>, WildcardParamStart>>
          /\ sets = <<SetCall(<<"w">>, <<"a">>)>>
    /\ (pc = "done" /\ inserted = {P_bw, P_byz} /\ q = R_bad) =>
          /\ result = <<<<"b">>, WildcardParamStart>>
          /\ sets = <<SetCall(<<"w">>, <<"a", "/", "d">>)>>

\* C5: with only the all-static /b/c/z and /:p/c/d registered, the request
\* /b/c/d is not found when searchUnvisitedParams is off, and is matched to
\* /:p/c/d with p = "b" when it is on.
C5_ConflictResolvedByBacktracking ==
    (pc = "done" /\ inserted = {P_bcz, P_pcd} /\ q = R_bcd) =>
        IF searchUnvisitedParams
        THEN /\ result = <<ParamStart, <<"c">>, <<"d">>>>
             /\ nodes[result].key = P_pcd
             /\ sets = <<SetCall(<<"p">>, <<"b">>)>>
        ELSE result = Nil /\ sets = <<>>

C5_Witness ==
    /\ pc = "done" /\ inserted = {P_bcz, P_pcd} /\ q = R_bcd
    /\ searchUnvisitedParams
    /\ last.kind = "match"
    /\ result = <<ParamStart, <<"c">>, <<"d">>>>

\* the children of node nd of class kind that accept the request segment seg;
\* the static child is the one the children map holds under the segment itself
Accepting(nd, kind, seg) ==
    {k \in DOMAIN nodes[nd].children :
        IF kind = "static" THEN k = Fold(seg)
        ELSE k # Fold(seg) /\ KeyKind(k) = kind /\ KeyAccepts(k, seg)}

\* the first class, in the order static, prefix, suffix, named, wildcard, of
\* which node nd has a child accepting seg
FirstClass(nd, seg) ==
    IF Accepting(nd, "static", seg) # {} THEN "static"
    ELSE IF Accepting(nd, "prefix", seg) # {} THEN "prefix"
    ELSE IF Accepting(nd, "suffix", seg) # {} THEN "suffix"
    ELSE IF Accepting(nd, "named", seg) # {} THEN "named"
    ELSE IF Accepting(nd, "wildcard", seg) # {} THEN "wildcard"
    ELSE "none"

C7_LongestLiteralWins ==
    (last.kind \in {"prefix", "suffix"}) =>
        LET key == last.child[Len(last.child)]
        IN \A k \in DOMAIN nodes[last.from].children :
              (KeyKind(k) = KeyKind(key) /\ KeyAccepts(k, last.seg))
                 => Len(KeyLiteral(k)) <= Len(KeyLiteral(key))

\* C8: once /*w is registered every Search returns a terminal node, and when
\* no other registered pattern matches the request it is the root wildcard
\* with w bound to q[1:] (nothing bound for the empty request and "/").
C8_RootWildcardCatchesAll ==
    (pc = "done" /\ P_w \in inserted /\ PlainRequest(q)) =>
        /\ result # Nil /\ result # Panic
        /\ nodes[result].end
        /\ (\A p \in Keys(nodes, root) \ {P_w} : ~Matches(p, q)) =>
              /\ result = <<WildcardParamStart>>
              /\ sets = IF q \in {<<>>, pathSep} THEN <<>>
                        ELSE <<SetCall(<<"w">>, SliceFrom(q, 1))>>

\* C9: a handler or tag stored on a terminal node is kept by every later Insert.
C9_PayloadKept ==
    [][\A nd \in DOMAIN nodes :
          /\ nodes[nd].Handler # "nil" => nodes'[nd].Handler = nodes[nd].Handler
          /\ nodes[nd].Tag # "" => nodes'[nd].Tag = nodes[nd].Tag
      ]_vars

\* C10 as stated: every inserted pattern is the key of exactly one terminal node.
C10_OneTerminalPerPattern ==
    \A p \in inserted : Cardinality(Terminals(p)) = 1

\* C10 amended: patterns with the same child-key path share one terminal node,
\* whose key is the one inserted last; every inserted pattern not superseded in
\* this way is the key of exactly one terminal node, a superseded one of none,
\* and Keys lists exactly the patterns not superseded.
C10_OneTerminalPerLivePattern ==
    /\ \A p \in inserted :
          Cardinality(Terminals(p)) = IF p \in superseded THEN 0 ELSE 1
    /\ Keys(nodes, root) = inserted \ superseded

C10_Witness ==
    /\ calls = 3
    /\ P_bcz \in superseded
    /\ P_bcz_s \in inserted \ superseded
    /\ P_pcd \in inserted \ superseded
    /\ Cardinality(Terminals(P_bcz_s)) = 1

-----------------------------------------------------------------------------
(* Search on patterns with a suffix parameter above a wildcard *)

P_sufw  == <<"/", "a", "a", "a", "-", ":", "d", "/", "*", "w">>   \* /aaa-:d/*w
P_sufcd == <<"/", "a", "-", ":", "d", "/", "c", "/", "d">>        \* /a-:d/c/d

R_dc    == <<"/", "d", "/", "c">>
R_dcz   == <<"/", "d", "/", "c", "/", "z">>

FallbackPatterns == {P_sufw, P_sufcd, P_suf1, P_pre1, P_p, P_pcd, P_pw, P_bcz}

FallbackRequests == {R_empty, R_slash, R_a, R_dc, R_dcz, R_bc, R_bcd, R_bcz, R_1bcd, R_acd}

InsertFallbackPattern == \E p \in FallbackPatterns : Insert(p, <<>>)

SearchFallback == \E qq \in FallbackRequests : SearchBegin(qq)

NextFallback ==
    \/ InsertFallbackPattern
    \/ SearchFallback
    \/ StepStatic
    \/ StepPrefix
    \/ StepSuffix
    \/ StepNamed
    \/ StepWildcard
    \/ StepBacktrack
    \/ StepFallback
    \/ StepMiss
    \/ SearchReturn

SpecFallback == Init /\ [][NextFallback]_vars

\* C11: Search never panics: whatever legal patterns were inserted and whatever
\* the request, no index or slice expression of Search is out of range, so the
\* search never ends in a runtime panic.
C11_SearchNeverPanics == result # Panic

-----------------------------------------------------------------------------
(* The length tables *)

\* the sequence s is strictly descending (hence without duplicate)
StrictlyDescending(s) == \A a, b \in 1..Len(s) : a < b => s[a] > s[b]

\* the lengths of the literals of the children of class kind of node nd
LiteralLengths(nd, kind) ==
    {Len(KeyLiteral(k)) : k \in {c \in DOMAIN nodes[nd].children : KeyKind(c) = kind}}

\* the values a table holds
TableValues(s) == {s[k] : k \in 1..Len(s)}

\* C12: after any sequence of Insert calls, on every node the prefix-length
\* table and the suffix-length table are strictly descending, without
\* duplicate, and hold exactly the literal lengths of the node's prefix (resp.
\* suffix) children.
C12_LengthTablesDescending ==
    \A nd \in DOMAIN nodes :
        /\ StrictlyDescending(nodes[nd].childPrefixLengths)
        /\ StrictlyDescending(nodes[nd].childSuffixLengths)
        /\ TableValues(nodes[nd].childPrefixLengths) = LiteralLengths(nd, "prefix")
        /\ TableValues(nodes[nd].childSuffixLengths) = LiteralLengths(nd, "suffix")

-----------------------------------------------------------------------------
(* Termination of Search *)

\* one pass through the body of the loop, whichever branch it takes
SearchStep ==
    \/ StepStatic
    \/ StepPrefix
    \/ StepSuffix
    \/ StepNamed
    \/ StepWildcard
    \/ StepBacktrack
    \/ StepFallback
    \/ StepMiss

\* the patterns and requests termination is explored on: static, named, prefix,
\* suffix and wildcard patterns that make the search backtrack
TerminationPatterns == {P_bcz, P_p, P_pcd, P_byz, P_bw, P_pre1, P_suf1}

TerminationRequests == {R_bc, R_ba, R_bad, R_bcd, R_1bcd, R_acd}

InsertTerminationPattern == \E p \in TerminationPatterns : Insert(p, <<>>)

SearchTermination == \E qq \in TerminationRequests : SearchBegin(qq)

NextTerminates ==
    \/ InsertTerminationPattern
    \/ SearchTermination
    \/ SearchStep
    \/ SearchReturn

\* Search is a sequential function: once called, the loop body and the code
\* after the loop run whenever they can.
SpecTerminates ==
    Init /\ [][NextTerminates]_vars /\ WF_vars(SearchStep) /\ WF_vars(SearchReturn)

\* C13: Search terminates: every backtrack (at a failing segment or at the end
\* of the request) goes to a node of the trie that was not in the visited set
\* and puts it there, the visited set holds nodes of the trie only, and every
\* search that entered the loop reaches its return.
C13_SearchTerminates ==
    /\ [][(pc = "loop" /\ last'.back.on) =>
            /\ last'.back.node \in DOMAIN nodes
            /\ last'.back.node \notin visitedNodes
            /\ last'.back.node \in visitedNodes'
            /\ visitedNodes \subseteq visitedNodes'
            /\ last'.back.i <= i]_vars
    /\ [](visitedNodes \subseteq DOMAIN nodes)
    /\ (pc = "loop") ~> (pc = "done")

\* a search that backtracked from /b/:y to the root's named child, rewinding
\* to the first segment, has returned
C13_Witness ==
    /\ pc = "done"
    /\ searchUnvisitedParams
    /\ inserted = {P_byz, P_pcd}
    /\ q = R_bcd
    /\ visitedNodes = {<<<<"b">>, ParamStart>>, <<ParamStart>>}
    /\ result = <<ParamStart, <<"c">>, <<"d">>>>

====
